---- MODULE Spec2Model ----
(***************************************************************************)
(* Model of the Argus Monitor -> MSI Afterburner plugin (src/src/main.cpp). *)
(*                                                                         *)
(* Threads: the host thread (DllMain load/unload), the polling thread      *)
(* (Argus_Thread_Update), a host reader thread (GetSourceData), and the    *)
(* external publisher (Argus Monitor) that owns the shared segment and the *)
(* cross-process mutex.                                                    *)
(*                                                                         *)
(* Pointers: 0 is nullptr, 1..NumRecords is &SensorData[i-1] of the mapped *)
(* segment, WILD is an address computed from a null segment pointer.       *)
(* Floats are records [m, e] meaning m * 2^e.                              *)
(***************************************************************************)
EXTENDS Integers, Sequences, FiniteSets, TLC

\* ---------------------------------------------------------------- bounds
\* The publisher's cycle counter is capped (u32 in the segment).
MaxCycle == 1

\* ------------------------------------------------------ program constants
ArgusSignature == 1298625089      \* 0x4D677241
NULL == 0
WILD == -1
TargetLabel == "T Sensor"

\* ------------------------------------------------------------- float model
FltZero == [m |-> 0, e |-> 0]
FLT_MAX == [m |-> 16777215, e |-> 104]
TwoTo24 == 2^24

\* f32(double) for an integer-valued double 0 <= v < 2^25 - 1: exact below
\* 2^24, round-to-nearest-even on the 24-bit significand above.
F32(v) ==
    IF v < TwoTo24 THEN [m |-> v, e |-> 0]
    ELSE LET h == v \div 2
             r == v % 2
         IN  [m |-> IF r = 0 THEN h ELSE IF h % 2 = 0 THEN h ELSE h + 1, e |-> 1]

\* Values the publisher writes into a record's Value field (double).
Values == {0, 42, 16777217}

\* --------------------------------------------------- published segment
MkTable(l1, l2, l3, off, cnt) ==
    [labels |-> <<l1, l2, l3>>, offset |-> off, count |-> cnt]

\* Sensor tables a running publisher may lay out: OffsetForSensorType /
\* SensorCount of the temperature category and the record labels.
Layouts ==
    { MkTable("T Sensor", "CPU", "T Sensor", 0, 2),
      MkTable("T Sensor", "T Sensor 2", "CPU", 1, 1),
      MkTable("CPU", "T Sensor", "T Sensor", 0, 3) }

ZeroTable == MkTable("", "", "", 0, 0)

NumRecords == Len(ZeroTable.labels)

ZeroValues == [i \in 1..NumRecords |-> 0]

ZeroSegment ==
    [Signature |-> 0, CycleCounter |-> 0, table |-> ZeroTable, values |-> ZeroValues]

VARIABLES
    as,          \* ArgusState
    os,          \* OS objects this process holds open
    ts,          \* ThreadState
    pc,          \* position of the polling thread
    life,        \* position of the host thread in load / unload
    rd,          \* the reader thread inside GetSourceData
    seg,         \* contents of the shared segment
    pubPresent,  \* the publisher process is running
    mutexOwner,  \* owner of the cross-process mutex
    crashed,     \* the process took an access violation
    nullRead,    \* history: the poller has read through a null segment pointer
    seen,        \* history: CycleCounter last read by the poller (-1: none)
    quiet,       \* history: nothing GetSourceData reads changed since the call began
    drift        \* history: the cached record's Value was written after the scan cached it

vars == <<as, os, ts, pc, life, rd, seg, pubPresent, mutexOwner, crashed,
          nullRead, seen, quiet, drift>>

\* ------------------------------------------------------------------ state
ArgusState0 == [initialized |-> FALSE, file |-> NULL, data |-> NULL, dataMutex |-> NULL]

ThreadState0 ==
    [poll |-> FALSE, dataAvailable |-> FALSE, lastCycleCounter |-> 0,
     thread |-> NULL, waterSensor |-> NULL]

Reader0 ==
    [pc |-> "idle", p |-> NULL, v |-> 0, ret |-> FltZero, how |-> "none", bad |-> ""]

Init ==
    /\ as = ArgusState0
    /\ os = {}
    /\ ts = ThreadState0
    /\ pc = "notstarted"
    /\ life = "unloaded"
    /\ rd = Reader0
    /\ seg = ZeroSegment
    /\ pubPresent = FALSE
    /\ mutexOwner = "none"
    /\ crashed = FALSE
    /\ nullRead = FALSE
    /\ seen = -1
    /\ quiet = FALSE
    /\ drift = FALSE

\* ------------------------------------------------------------ Argus API
\* Argus_Deinit: close what is held, then s = {}.
Argus_Deinit(s, o) ==
    LET o1 == IF s.dataMutex # NULL THEN o \ {"mutex"} ELSE o
        o2 == IF s.data # NULL THEN o1 \ {"view"} ELSE o1
        o3 == IF s.file # NULL THEN o2 \ {"file"} ELSE o2
    IN  [s |-> ArgusState0, os |-> o3, ok |-> FALSE]

\* Argus_Init with the deferred cleanup left out: a failed step returns with
\* what was acquired before it still held.
Argus_Init_NoDefer(s, o, failAt) ==
    LET s1 == [s EXCEPT !.file = IF failAt = 1 THEN NULL ELSE 1]
        o1 == IF failAt = 1 THEN o ELSE o \cup {"file"}
        s3 == [s1 EXCEPT !.data = 1]
        o3 == o1 \cup {"view"}
    IN  IF failAt \in {1, 2} THEN [s |-> s1, os |-> o1, ok |-> FALSE]
        ELSE IF failAt = 3 THEN [s |-> s3, os |-> o3, ok |-> FALSE]
        ELSE [s |-> [s3 EXCEPT !.dataMutex = 1, !.initialized = TRUE],
              os |-> o3 \cup {"mutex"}, ok |-> TRUE]

\* Argus_Init: failAt is the first OS call that fails (0: none,
\* 1: OpenFileMappingW, 2: MapViewOfFile, 3: OpenMutexW).  The deferred
\* block runs Argus_Deinit on every return with success = false.
Argus_Init(s, o, failAt) ==
    LET s1 == [s EXCEPT !.file = IF failAt = 1 THEN NULL ELSE 1]
        o1 == IF failAt = 1 THEN o ELSE o \cup {"file"}
        s2 == [s1 EXCEPT !.data = 1]
        o2 == o1 \cup {"view"}
        s3 == [s2 EXCEPT !.dataMutex = IF failAt = 3 THEN NULL ELSE 1]
        o3 == IF failAt = 3 THEN o2 ELSE o2 \cup {"mutex"}
        s4 == [s3 EXCEPT !.initialized = TRUE]
    IN  IF failAt \in {1, 2} THEN Argus_Deinit(s1, o1)
        ELSE IF failAt = 3 THEN Argus_Deinit(s3, o3)
        ELSE [s |-> s4, os |-> o3, ok |-> TRUE]

\* Which OS call of an attach attempt can fail: the named objects do not
\* exist while the publisher is absent.
AttachOutcomes == IF pubPresent THEN 0..3 ELSE {1}


\* ------------------------------------------------------- sensor lookup
\* The for loop of lines 169-178 from index i on: the cached pointer is
\* assigned at the first matching label and left as it was otherwise.
RECURSIVE ScanFrom(_, _, _)
ScanFrom(tbl, i, ws) ==
    IF i >= tbl.count THEN ws
    ELSE IF tbl.labels[tbl.offset + i + 1] = TargetLabel
         THEN tbl.offset + i + 1
         ELSE ScanFrom(tbl, i + 1, ws)

ScanSensors(tbl, ws) == ScanFrom(tbl, 0, ws)

\* The comparison made strict: an unchanged counter counts as a restart.
RestartCheck_Strict(t, counter) == t.dataAvailable /\ t.lastCycleCounter < counter

\* ts.dataAvailable &= ts.lastCycleCounter <= as.data->CycleCounter
RestartCheck(t, counter) == t.dataAvailable /\ t.lastCycleCounter <= counter

\* The signature test left out.
SignatureAny(sig) == TRUE

\* as.data->Signature == 0x4D677241
SignatureOk(sig) == sig = ArgusSignature

\* ------------------------------------------------------- history variables
\* p points at a record of a segment that is mapped.
Mapped(p) == p \in 1..NumRecords /\ "view" \in os

\* quiet: set when a GetSourceData call begins, dropped by any write to what
\* the call reads.
QuietNext ==
    quiet' = IF rd.pc = "idle" /\ rd' # rd
             THEN TRUE
             ELSE /\ quiet
                  /\ ts'.waterSensor = ts.waterSensor
                  /\ seg'.values = seg.values
                  /\ as'.data = as.data
                  /\ crashed' = crashed

\* drift: reset when the scan runs, set when the publisher then changes the
\* Value of the record the cached pointer refers to.
DriftNext ==
    drift' = IF pc = "scan" /\ pc' # pc
             THEN FALSE
             ELSE \/ drift
                  \/ /\ Mapped(ts.waterSensor)
                     /\ seg'.values[ts.waterSensor] # seg.values[ts.waterSensor]

History == QuietNext /\ DriftNext

\* ------------------------------------------------------ polling thread
\* while (ts.poll)
PollerLoop ==
    /\ ~crashed
    /\ pc = "loop"
    /\ pc' = IF ts.poll THEN "check" ELSE "done"
    /\ UNCHANGED <<as, os, ts, life, rd, seg, pubPresent, mutexOwner, crashed,
                   nullRead, seen>>
    /\ History

\* Lines 151-156: attach when not initialized, then the restart check.  The
\* read of as.data->CycleCounter is made whether or not the attach
\* succeeded; through a null pointer it faults or yields an arbitrary value.
PollerCheck ==
    /\ ~crashed
    /\ pc = "check"
    /\ \E failAt \in AttachOutcomes :
         LET r == IF ~as.initialized THEN Argus_Init(as, os, failAt)
                  ELSE [s |-> as, os |-> os, ok |-> TRUE]
         IN  /\ as' = r.s
             /\ os' = r.os
             /\ IF r.s.data = NULL
                THEN /\ nullRead' = TRUE
                     /\ seen' = seen
                     /\ \/ /\ crashed' = TRUE
                           /\ UNCHANGED <<ts, pc>>
                        \/ \E c \in 0..MaxCycle :
                             /\ crashed' = crashed
                             /\ ts' = [ts EXCEPT !.dataAvailable = RestartCheck(ts, c)]
                             /\ pc' = IF RestartCheck(ts, c) THEN "sleep" ELSE "resolve"
                ELSE /\ ts' = [ts EXCEPT !.dataAvailable = RestartCheck(ts, seg.CycleCounter)]
                     /\ pc' = IF RestartCheck(ts, seg.CycleCounter) THEN "sleep" ELSE "resolve"
                     /\ seen' = seg.CycleCounter
                     /\ UNCHANGED <<crashed, nullRead>>
    /\ UNCHANGED <<life, rd, seg, pubPresent, mutexOwner>>
    /\ History

\* Lines 158-160: record the counter, test the signature.
PollerResolve ==
    /\ ~crashed
    /\ pc = "resolve"
    /\ IF as.data = NULL
       THEN /\ nullRead' = TRUE
            /\ seen' = seen
            /\ \/ /\ crashed' = TRUE
                  /\ UNCHANGED <<ts, pc>>
               \/ \E c \in 0..MaxCycle, ok \in BOOLEAN :
                    /\ crashed' = crashed
                    /\ ts' = [ts EXCEPT !.lastCycleCounter = c, !.dataAvailable = ok]
                    /\ pc' = IF ok THEN "acquire" ELSE "sleep"
       ELSE /\ ts' = [ts EXCEPT !.lastCycleCounter = seg.CycleCounter,
                                !.dataAvailable = SignatureOk(seg.Signature)]
            /\ pc' = IF SignatureOk(seg.Signature) THEN "acquire" ELSE "sleep"
            /\ seen' = seg.CycleCounter
            /\ UNCHANGED <<crashed, nullRead>>
    /\ UNCHANGED <<as, os, life, rd, seg, pubPresent, mutexOwner>>
    /\ History

\* Line 162: WaitForSingleObject(as.dataMutex, INFINITE).  On a null handle
\* the wait fails at once and the thread goes on without the mutex.
PollerAcquire ==
    /\ ~crashed
    /\ pc = "acquire"
    /\ IF as.dataMutex = NULL
       THEN mutexOwner' = mutexOwner
       ELSE /\ mutexOwner = "none"
            /\ mutexOwner' = "poller"
    /\ pc' = "scan"
    /\ UNCHANGED <<as, os, ts, life, rd, seg, pubPresent, crashed,
                   nullRead, seen>>
    /\ History

\* The release left out.
ReleaseMutex_Skipped(owner) == owner

\* Line 163: the deferred ReleaseMutex(as.dataMutex); it fails without effect
\* when the poller does not own the mutex.
ReleaseMutex(owner) == IF owner = "poller" THEN "none" ELSE owner

\* Lines 165-179: scan the temperature category, then the deferred
\* ReleaseMutex.
PollerScan ==
    /\ ~crashed
    /\ pc = "scan"
    /\ IF as.data = NULL
       THEN /\ nullRead' = TRUE
            /\ \/ /\ crashed' = TRUE
                  /\ UNCHANGED <<ts, pc, mutexOwner>>
               \/ \E ws \in {ts.waterSensor, WILD} :
                    /\ crashed' = crashed
                    /\ ts' = [ts EXCEPT !.waterSensor = ws]
                    /\ pc' = "sleep"
                    /\ mutexOwner' = mutexOwner
       ELSE /\ ts' = [ts EXCEPT !.waterSensor = ScanSensors(seg.table, ts.waterSensor)]
            /\ mutexOwner' = ReleaseMutex(mutexOwner)
            /\ pc' = "sleep"
            /\ UNCHANGED <<crashed, nullRead>>
    /\ UNCHANGED <<as, os, life, rd, seg, pubPresent, seen>>
    /\ History

\* Line 149: the deferred Sleep(250) that ends every iteration.
PollerSleep ==
    /\ ~crashed
    /\ pc = "sleep"
    /\ pc' = "loop"
    /\ UNCHANGED <<as, os, ts, life, rd, seg, pubPresent, mutexOwner, crashed,
                   nullRead, seen>>
    /\ History

Poller == PollerLoop \/ PollerCheck \/ PollerResolve \/ PollerAcquire
            \/ PollerScan \/ PollerSleep

\* ---------------------------------------------------------- host thread
\* DllMain(DLL_PROCESS_ATTACH) -> Argus_Thread_Init.  When CreateThread
\* fails the deferred Argus_Thread_Deinit runs on the never-started state:
\* the wait on the null thread handle fails at once.  ThreadInit_NoDefer is
\* the function without that deferred cleanup.
ThreadInit_NoDefer ==
    /\ ~crashed
    /\ life = "unloaded"
    /\ \E created \in BOOLEAN :
         IF created
         THEN /\ ts' = [ts EXCEPT !.poll = TRUE, !.thread = 1]
              /\ pc' = "loop"
              /\ life' = "running"
         ELSE /\ ts' = [ts EXCEPT !.poll = TRUE, !.thread = NULL]
              /\ life' = "loadfailed"
              /\ pc' = pc
    /\ UNCHANGED <<as, os, rd, seg, pubPresent, mutexOwner, crashed, nullRead, seen>>
    /\ History

\* Lines 117-136 and 265-284.
ThreadInit ==
    /\ ~crashed
    /\ life = "unloaded"
    /\ \E created \in BOOLEAN :
         IF created
         THEN /\ ts' = [ts EXCEPT !.poll = TRUE, !.thread = 1]
              /\ pc' = "loop"
              /\ life' = "running"
              /\ UNCHANGED <<as, os>>
         ELSE /\ ts' = ThreadState0
              /\ as' = Argus_Deinit(as, os).s
              /\ os' = Argus_Deinit(as, os).os
              /\ life' = "loadfailed"
              /\ pc' = pc
    /\ UNCHANGED <<rd, seg, pubPresent, mutexOwner, crashed, nullRead, seen>>
    /\ History

\* DllMain(DLL_PROCESS_DETACH) -> Argus_Thread_Deinit, line 203.
ThreadDeinitBegin ==
    /\ ~crashed
    /\ life \in {"running", "loadfailed"}
    /\ ts' = [ts EXCEPT !.poll = FALSE]
    /\ life' = "joining"
    /\ UNCHANGED <<as, os, pc, rd, seg, pubPresent, mutexOwner, crashed,
                   nullRead, seen>>
    /\ History

\* Lines 204-206: the wait returns once the thread has ended (at once on a
\* null handle), then ts = {}.
ThreadDeinitJoin ==
    /\ ~crashed
    /\ life = "joining"
    /\ ts.thread = NULL \/ pc = "done"
    /\ ts' = ThreadState0
    /\ life' = "detaching"
    /\ UNCHANGED <<as, os, pc, rd, seg, pubPresent, mutexOwner, crashed,
                   nullRead, seen>>
    /\ History

\* Line 208: Argus_Deinit(as).
ThreadDeinitDetach ==
    /\ ~crashed
    /\ life = "detaching"
    /\ as' = Argus_Deinit(as, os).s
    /\ os' = Argus_Deinit(as, os).os
    /\ life' = "stopped"
    /\ UNCHANGED <<ts, pc, rd, seg, pubPresent, mutexOwner, crashed,
                   nullRead, seen>>
    /\ History

Host == ThreadInit \/ ThreadDeinitBegin \/ ThreadDeinitJoin \/ ThreadDeinitDetach

\* ---------------------------------------------------------- GetSourceData
\* Line 259: what the function returns when the test of line 255 fails.
AbsentResult == FltZero

\* Why a read through p faults.
FaultKind(p) == IF p = NULL THEN "null" ELSE IF p = WILD THEN "wild" ELSE "unmapped"

\* The Value of the first record instead of the cached one.
SensorValueFirst(p) == seg.values[1]

\* waterSensor->Value
SensorValue(p) == seg.values[p]

\* The unsynchronized pointer may be loaded again at every use or kept in
\* a register from the previous use.
PointerLoads == {rd.p, ts.waterSensor}

Returned(r, how, bad) ==
    [pc |-> "idle", p |-> NULL, v |-> 0, ret |-> r, how |-> how, bad |-> bad]

\* A GetSourceData step that first waits for the segment mutex to be free.
ReadFrameLocked ==
    /\ mutexOwner = "none"
    /\ UNCHANGED <<as, os, ts, pc, life, seg, pubPresent, mutexOwner,
                   nullRead, seen>>

\* Lines 248-260: the function takes no lock, waits for nothing and writes
\* nothing but its result.
ReadFrame ==
    UNCHANGED <<as, os, ts, pc, life, seg, pubPresent, mutexOwner,
                nullRead, seen>>

\* Line 255, left operand: state.thread.waterSensor
ReadBegin ==
    /\ ~crashed
    /\ life \in {"running", "joining", "detaching"}
    /\ rd.pc = "idle"
    /\ IF ts.waterSensor = NULL
       THEN rd' = Returned(AbsentResult, "absent", "")
       ELSE rd' = [pc |-> "valtest", p |-> ts.waterSensor, v |-> 0,
                   ret |-> FltZero, how |-> "none", bad |-> ""]
    /\ crashed' = crashed
    /\ ReadFrame
    /\ History

\* Line 255, right operand: state.thread.waterSensor->Value
ReadTest ==
    /\ ~crashed
    /\ rd.pc = "valtest"
    /\ \E q \in PointerLoads :
         IF Mapped(q)
         THEN /\ rd' = IF SensorValue(q) = 0
                       THEN Returned(AbsentResult, "zero", rd.bad)
                       ELSE [rd EXCEPT !.pc = "valread", !.p = q, !.v = SensorValue(q)]
              /\ crashed' = crashed
         ELSE \/ /\ crashed' = TRUE
                 /\ rd' = [rd EXCEPT !.bad = FaultKind(q)]
              \/ \E v \in Values :
                   /\ crashed' = crashed
                   /\ rd' = IF v = 0
                            THEN Returned(AbsentResult, "zero", FaultKind(q))
                            ELSE [rd EXCEPT !.pc = "valread", !.p = q, !.v = v,
                                            !.bad = FaultKind(q)]
    /\ ReadFrame
    /\ History

\* Line 256: return f32(state.thread.waterSensor->Value).  The value is the
\* one tested (kept in a register) or one read again.
ReadValue ==
    /\ ~crashed
    /\ rd.pc = "valread"
    /\ \/ /\ rd' = Returned(F32(rd.v), "value", rd.bad)
          /\ crashed' = crashed
       \/ \E q \in PointerLoads :
            IF Mapped(q)
            THEN /\ rd' = Returned(F32(SensorValue(q)), "value", rd.bad)
                 /\ crashed' = crashed
            ELSE \/ /\ crashed' = TRUE
                    /\ rd' = [rd EXCEPT !.bad = FaultKind(q)]
                 \/ \E v \in Values :
                      /\ crashed' = crashed
                      /\ rd' = Returned(F32(v), "value", FaultKind(q))
    /\ ReadFrame
    /\ History

Reader == ReadBegin \/ ReadTest \/ ReadValue

\* ---------------------------------------------------------- GetSourceDesc
\* Lines 226-246: the descriptor written to *pDesc.  dwIndex is ignored and
\* dwVersion is copied from the caller's structure.
GetSourceDesc(dwIndex, dwVersion) ==
    [dwVersion   |-> dwVersion,
     szName      |-> "T Sensor",
     szUnits     |-> "\\xb0C",
     szFormat    |-> "%.0f",
     szGroup     |-> "MOBO",
     dwID        |-> "MONITORING_SOURCE_ID_PLUGIN_MOBO",
     dwInstance  |-> 0,
     fltMaxLimit |-> F32(0),
     fltMinLimit |-> F32(100),
     ret         |-> TRUE]

\* The arguments the host passes.
DescIndexes == {0, 1}
DescVersions == {1, 2}

\* -------------------------------------------------------------- publisher
\* The publisher starts: it lays out a table and writes the signature; its
\* cycle counter starts over.
PubStart ==
    /\ ~pubPresent
    /\ pubPresent' = TRUE
    /\ \E tbl \in Layouts :
         seg' = [Signature |-> ArgusSignature, CycleCounter |-> 0,
                 table |-> tbl, values |-> ZeroValues]
    /\ UNCHANGED <<as, os, ts, pc, life, rd, mutexOwner, crashed,
                   nullRead, seen>>
    /\ History

PubLock ==
    /\ pubPresent
    /\ mutexOwner = "none"
    /\ mutexOwner' = "pub"
    /\ UNCHANGED <<as, os, ts, pc, life, rd, seg, pubPresent, crashed,
                   nullRead, seen>>
    /\ History

\* An update pass writes the Value of a record that carries the target label
\* (the other records keep the value they were started with) ...
PubWrite ==
    /\ pubPresent
    /\ mutexOwner = "pub"
    /\ \E i \in 1..NumRecords, v \in Values :
         /\ seg.table.labels[i] = TargetLabel
         /\ seg.values[i] # v
         /\ seg' = [seg EXCEPT !.values[i] = v]
    /\ UNCHANGED <<as, os, ts, pc, life, rd, pubPresent, mutexOwner, crashed,
                   nullRead, seen>>
    /\ History

\* ... and increments the cycle counter.
PubTick ==
    /\ pubPresent
    /\ mutexOwner = "pub"
    /\ seg.CycleCounter < MaxCycle
    /\ seg' = [seg EXCEPT !.CycleCounter = @ + 1]
    /\ UNCHANGED <<as, os, ts, pc, life, rd, pubPresent, mutexOwner, crashed,
                   nullRead, seen>>
    /\ History

PubUnlock ==
    /\ mutexOwner = "pub"
    /\ mutexOwner' = "none"
    /\ UNCHANGED <<as, os, ts, pc, life, rd, seg, pubPresent, crashed,
                   nullRead, seen>>
    /\ History

\* Graceful shutdown: the memory is zero filled (lines 182-192).
PubExit ==
    /\ pubPresent
    /\ pubPresent' = FALSE
    /\ seg' = ZeroSegment
    /\ mutexOwner' = IF mutexOwner = "pub" THEN "none" ELSE mutexOwner
    /\ UNCHANGED <<as, os, ts, pc, life, rd, crashed, nullRead, seen>>
    /\ History

\* Crash: a held mutex is abandoned; the memory is left as it is while this
\* process holds the mapping open, and goes with its last handle otherwise.
PubCrash ==
    /\ pubPresent
    /\ pubPresent' = FALSE
    /\ mutexOwner' = IF mutexOwner = "pub" THEN "none" ELSE mutexOwner
    /\ seg' = IF "file" \in os THEN seg ELSE ZeroSegment
    /\ UNCHANGED <<as, os, ts, pc, life, rd, crashed, nullRead, seen>>
    /\ History

Publisher == PubStart \/ PubLock \/ PubWrite \/ PubTick \/ PubUnlock
               \/ PubExit \/ PubCrash

\* -------------------------------------------------------------- the system
Next == Poller \/ Host \/ Reader \/ Publisher

Spec == Init /\ [][Next]_vars

\* Scheduling: a started thread keeps running; the wait of line 162 is served
\* once the publisher, which holds the mutex only transiently, releases it;
\* the host thread finishes an unload it has begun; an attach attempted
\* again and again while the publisher runs succeeds.
AttachOk == PollerCheck /\ ~as.initialized /\ as'.initialized

Fairness ==
    /\ WF_vars(PollerLoop)
    /\ WF_vars(PollerCheck)
    /\ SF_vars(AttachOk)
    /\ WF_vars(PollerResolve)
    /\ SF_vars(PollerAcquire)
    /\ WF_vars(PollerScan)
    /\ WF_vars(PollerSleep)
    /\ WF_vars(ThreadDeinitJoin)
    /\ WF_vars(ThreadDeinitDetach)
    /\ WF_vars(PubUnlock)

FairSpec == Spec /\ Fairness

\* ================================================================ claims
Attached == as.initialized /\ as.file # NULL /\ as.data # NULL /\ as.dataMutex # NULL
Detached == as = ArgusState0
Resolved == ts.dataAvailable

\* The PollerCheck / PollerResolve / PollerScan step of an iteration on an
\* attached handle.
CheckStep == pc = "check" /\ pc' \in {"resolve", "sleep"} /\ as'.initialized
ResolveStep == pc = "resolve" /\ pc' \in {"acquire", "sleep"} /\ as.initialized
ScanStep == pc = "scan" /\ pc' = "sleep" /\ as.initialized

\* No read through a null segment pointer has gone before.
Sound == ~nullRead

\* The records of the temperature category whose label is the target label.
Matches(tbl) ==
    {i \in (tbl.offset + 1)..(tbl.offset + tbl.count) : tbl.labels[i] = TargetLabel}

\* The lookup's answer as the claim states it: the lowest matching record of
\* the category's sub-range, or not-found.
FirstInRange(tbl) ==
    IF Matches(tbl) = {} THEN NULL
    ELSE CHOOSE i \in Matches(tbl) : \A j \in Matches(tbl) : i <= j

\* C1: a GetSourceData call that finds no cached sensor reference returns the
\* host's invalid marker FLT_MAX, which is not 0.
C1_AbsentReturnsSentinel ==
    (rd.pc = "idle" /\ rd.how = "absent") => (rd.ret = FLT_MAX /\ rd.ret # FltZero)

\* C2: on an attached handle, a poll that is Resolved and reads a cycle
\* counter below the one the previous poll read drops the available flag and
\* goes on to re-resolve.
C2_RestartDetected ==
    [][(CheckStep /\ Sound /\ as.initialized /\ Resolved /\ seg.CycleCounter < seen)
         => (~ts'.dataAvailable /\ pc' = "resolve")]_vars

\* C3: the poll that detects a restart clears the cached sensor reference in
\* that same iteration, before it re-resolves.
C3_RestartClearsReference ==
    [][(CheckStep /\ Sound /\ Resolved /\ ~ts'.dataAvailable)
         => ts'.waterSensor = NULL]_vars

\* C4: the poller never reads the segment through a null pointer: with the
\* handle detached after the attach attempt it reads nothing.
C4_NoReadWhileDetached == ~nullRead

\* C5: if from some point on the publisher is present with a matching
\* signature and a "T Sensor" record in the temperature category, and the
\* poller is not asked to stop, then from some point on the handle is
\* attached and the state Resolved with the reference at that record.
Favourable ==
    /\ life = "running"
    /\ pubPresent
    /\ seg.Signature = ArgusSignature
    /\ Matches(seg.table) # {}

C5_EventuallyResolved ==
    <>[]Favourable
      => <>[](Attached /\ Resolved /\ ts.waterSensor = FirstInRange(seg.table))

\* C6: once OnUnload has set the run flag false, the poller leaves its loop,
\* the join returns and the unload completes.
C6_UnloadCompletes == (life = "joining") ~> (life = "stopped")

\* C7: between operations the handle is fully attached (mapping, view and
\* mutex all held, initialized) or fully detached (all null, nothing held).
C7_AllOrNothing ==
    \/ Attached /\ os = {"file", "view", "mutex"}
    \/ Detached /\ os = {}

\* C7 witness: an attach attempt has failed and has left the handle fully
\* detached with nothing held, and the publisher is running.
C7_Witness ==
    nullRead /\ pubPresent /\ ~crashed /\ pc = "resolve" /\ Detached /\ os = {}

\* C8 as stated: a poll on an attached handle that sees a signature other
\* than the expected one ends Unresolved, whatever state it started in.
C8_MismatchEndsUnresolved ==
    [][((CheckStep \/ ResolveStep) /\ Sound /\ pc' = "sleep"
          /\ seg.Signature # ArgusSignature)
         => ~ts'.dataAvailable]_vars

\* C8 amended: a poll on an attached handle that starts Unresolved or detects
\* a restart, and tests a signature other than the expected one, goes to the
\* sleep without acquiring the mutex or scanning, and ends Unresolved; a poll
\* that starts Resolved and detects no restart goes to the sleep Resolved
\* without testing the signature; the sleep changes neither.
C8_MismatchOnResolve ==
    [][/\ (ResolveStep /\ seg.Signature # ArgusSignature)
            => /\ pc' = "sleep"
               /\ ~ts'.dataAvailable
               /\ mutexOwner' = mutexOwner
               /\ ts'.waterSensor = ts.waterSensor
       /\ (CheckStep /\ pc' = "sleep")
            => /\ Resolved
               /\ ts' = ts
               /\ mutexOwner' = mutexOwner
       /\ (pc = "sleep" /\ pc' = "loop") => (ts' = ts /\ mutexOwner' = mutexOwner)
      ]_vars

\* C8 witness: a poll that started Resolved detected a restart, found the
\* signature wrong and is at its sleep, Unresolved.
C8_Witness ==
    /\ pc = "sleep"
    /\ Attached
    /\ seg.Signature # ArgusSignature
    /\ ~Resolved
    /\ ts.waterSensor # NULL
    /\ seen = seg.CycleCounter
    /\ mutexOwner # "poller"

\* C9: the lookup leaves the reference at the lowest matching record of the
\* temperature category's sub-range, and at not-found when none matches.
C9_LookupResult ==
    [][(ScanStep /\ Sound) => ts'.waterSensor = FirstInRange(seg.table)]_vars

\* C10: a GetSourceData call made while the cached reference points at a
\* record of the mapped segment, with no write to what it reads while it
\* runs, returns that record's current non-zero Value as a float.
C10_LiveValue ==
    (rd.pc = "idle" /\ rd.how = "value" /\ quiet /\ Mapped(ts.waterSensor))
      => /\ rd.ret = F32(seg.values[ts.waterSensor])
         /\ rd.ret # FltZero
         /\ rd.bad = ""

\* C10 witness: the publisher changed the record's Value after the scan
\* cached the reference, and a call made with the poller at its sleep
\* returned the new Value, rounded to float.
C10_Witness ==
    /\ rd.pc = "idle"
    /\ rd.how = "value"
    /\ quiet
    /\ drift
    /\ pc = "sleep"
    /\ Mapped(ts.waterSensor)
    /\ rd.ret = F32(seg.values[ts.waterSensor])
    /\ seg.values[ts.waterSensor] > TwoTo24

\* C11: a GetSourceData step changes neither the handle nor the thread state
\* (available flag, last-seen counter, cached reference, run flag) nor the
\* mutex nor the poller's or the segment's state, and a call is never made to
\* wait: it can start whenever the plugin is loaded and its next step can be
\* taken in every state of the poller and the publisher.
C11_ReaderStep == rd' # rd
C11_ReadNeverBlocksNorWrites ==
    /\ [][C11_ReaderStep
            => /\ as' = as /\ os' = os /\ ts' = ts
               /\ mutexOwner' = mutexOwner
               /\ pc' = pc /\ life' = life
               /\ seg' = seg /\ pubPresent' = pubPresent]_vars
    /\ []((~crashed /\ rd.pc = "idle" /\ life \in {"running", "joining", "detaching"})
            => ENABLED ReadBegin)
    /\ []((~crashed /\ rd.pc = "valtest") => ENABLED ReadTest)
    /\ []((~crashed /\ rd.pc = "valread") => ENABLED ReadValue)

\* C11 witness: a call has tested the reference and the value and is about to
\* return while the poller waits for the mutex the publisher holds.
C11_Witness ==
    /\ rd.pc = "valread"
    /\ pc = "acquire"
    /\ as.dataMutex # NULL
    /\ mutexOwner = "pub"
    /\ ~crashed

\* C12: OnLoad fails exactly when the poller thread is not created, and then
\* leaves the run flag false, no thread handle, availability cleared and the
\* handle fully detached with nothing held; the cleanup on that never-started
\* state does not wait.  No later step (a failed attach, a scan that finds
\* nothing) turns a successful load into a failed one.
C12_LoadFailsOnlyWithoutThread ==
    /\ [][(life = "unloaded" /\ life' # life)
            => /\ life' \in {"running", "loadfailed"}
               /\ (life' = "loadfailed") <=> (ts'.thread = NULL)
               /\ (life' = "running") => (ts'.poll /\ pc' = "loop")]_vars
    /\ [](life = "loadfailed"
            => /\ ~ts.poll /\ ts.thread = NULL
               /\ ~ts.dataAvailable /\ ts.waterSensor = NULL
               /\ Detached /\ os = {}
               /\ pc = "notstarted")
    /\ [][(life' = "loadfailed") => (life \in {"unloaded", "loadfailed"})]_vars
    /\ []((~crashed /\ life = "joining" /\ ts.thread = NULL)
            => ENABLED ThreadDeinitJoin)

\* C12 witness: the load has failed with the publisher running, so that an
\* attach would have succeeded.
C12_Witness == life = "loadfailed" /\ pubPresent /\ seg.Signature = ArgusSignature

\* C13: while the plugin is loaded, GetSourceDesc reports the display range
\* [0, 100]: a minimum limit of 0 and a maximum limit of 100, whatever the
\* state of the poller and the publisher and whatever the arguments.
C13_DisplayRange ==
    life = "running"
      => \A i \in DescIndexes, v \in DescVersions :
           /\ GetSourceDesc(i, v).ret
           /\ GetSourceDesc(i, v).fltMinLimit = F32(0)
           /\ GetSourceDesc(i, v).fltMaxLimit = F32(100)

\* C14: a resolution whose scan of the temperature category finds no record
\* labelled "T Sensor" leaves the state Unresolved (available flag false), so
\* that the next iteration resolves again.
C14_NotFoundStaysUnresolved ==
    [][(ScanStep /\ Sound /\ Matches(seg.table) = {}) => ~ts'.dataAvailable]_vars

\* C15: the poller owns the mutex only between its acquisition and the end
\* of the scan of the same iteration: never while it sleeps, at the start of
\* an iteration or after the loop has ended; it acquires only on the way to
\* the scan, and every way out of the scan releases.
C15_MutexOnlyForScan ==
    /\ [](mutexOwner = "poller" => pc = "scan")
    /\ [][(mutexOwner' = "poller" /\ mutexOwner # "poller")
            => (pc = "acquire" /\ pc' = "scan")]_vars
    /\ [][(pc = "scan" /\ pc' # "scan") => mutexOwner' # "poller"]_vars

\* C15 witness: a scan made under the mutex ran to the end of the category
\* without a match, and the poller is at its sleep with the mutex free.
C15_Witness ==
    /\ pc = "sleep"
    /\ Sound
    /\ Attached
    /\ Resolved
    /\ Matches(seg.table) = {}
    /\ seg.table.count > 0
    /\ ts.waterSensor = NULL
    /\ mutexOwner = "none"

\* C16: an iteration on an attached handle that starts Resolved and reads a
\* cycle counter not below the last-seen one goes straight to its sleep: no
\* signature test, no mutex acquisition, no scan, and the available flag, the
\* last-seen counter and the cached reference are as they were.
C16_SteadyStateNoOp ==
    [][(CheckStep /\ Resolved /\ seg.CycleCounter >= ts.lastCycleCounter)
         => /\ pc' = "sleep"
            /\ ts'.dataAvailable = ts.dataAvailable
            /\ ts'.waterSensor = ts.waterSensor
            /\ ts'.lastCycleCounter = ts.lastCycleCounter
            /\ mutexOwner' = mutexOwner
            /\ seg' = seg]_vars

\* C16 witness: after the resolution that cached the reference the publisher
\* advanced the counter; the next iteration read it and is at its sleep,
\* still Resolved with the same last-seen counter.
C16_Witness ==
    /\ pc = "sleep"
    /\ Sound
    /\ Attached
    /\ Resolved
    /\ Mapped(ts.waterSensor)
    /\ seen > ts.lastCycleCounter
    /\ seen = seg.CycleCounter

\* C17: every iteration the poller begins reaches its sleep, whatever the
\* outcome of the attach attempt and of the resolution (a fault raised by a
\* GetSourceData call, which ends the process, set aside).
C17_IterationEndsInSleep ==
    (pc = "check" /\ ~crashed) ~> (pc = "sleep" \/ rd.bad # "")

\* C18: a GetSourceData call interleaved with the poller and with the unload
\* never reads Value through a null reference nor through a reference into
\* the segment after it was unmapped.
C18_ReaderNeverFaults == Sound => rd.bad \notin {"null", "unmapped"}

====
